---------------------------- MODULE Spec2Model ----------------------------
(* A model of comprexor's Compressor / Extractor pipelines (src/src/lib.rs) *)
(* over an abstract filesystem.  A path is a sequence of name components,   *)
(* a file's content is raw bytes, a tar stream or a gzip stream, and each   *)
(* call is a small process whose steps are the filesystem operations of    *)
(* compress_with_tar / compress_internal / extract_internal.               *)
EXTENDS Integers, Sequences, FiniteSets, TLC

VARIABLES
    fs0,        \* the filesystem before any call was made
    fs,         \* the filesystem: resolved path -> node
    staging,    \* the temporary directory: staging-file name -> content
    call,       \* per caller: the Compressor/Extractor, its locals, its result
    conv        \* the CompressionLevel under conversion, with both results

vars == <<fs0, fs, staging, call, conv>>

---------------------------------------------------------------------------
(* Bounds                                                                  *)

\* Custom(n) is drawn from 0..MaxCustom
MaxCustom == 12
\* the temporary directory offers the names 1..MaxTmp
MaxTmp == 2
\* the conversions alone are applied to Custom(n) for n in 0..MaxLevel
MaxLevel == 40

CallIds == {"A", "B"}
TmpNames == 1..MaxTmp

---------------------------------------------------------------------------
(* CompressionLevel and its two conversions                                *)

Lv(tag, n) == [tag |-> tag, n |-> n]
NamedLevels == {Lv("None", 0), Lv("Fast", 0), Lv("Default", 0), Lv("Maximum", 0)}
CustomLevels == {Lv("Custom", n) : n \in 0..MaxCustom}
CompressionLevel == NamedLevels \cup CustomLevels

\* impl From<&CompressionLevel> for u32
LevelToU32(value) ==
    CASE value.tag = "None"    -> 0
      [] value.tag = "Fast"    -> 1
      [] value.tag = "Default" -> 6
      [] value.tag = "Maximum" -> 9
      [] value.tag = "Custom"  -> value.n

\* flate2::Compression, a wrapper of the numeric level
CompressionNew(n) == [ok |-> TRUE, level |-> n, msg |-> 0]
CompressionNone == CompressionNew(0)
CompressionFast == CompressionNew(1)
CompressionDefault == CompressionNew(6)
CompressionBest == CompressionNew(9)
\* Err("Invalid compression level: {level}, must be between 0 and 9")
InvalidLevel(n) == [ok |-> FALSE, level |-> 0, msg |-> n]

TryFromLevelOffByOne(value) ==
    CASE value.tag = "None"    -> CompressionNone
      [] value.tag = "Fast"    -> CompressionFast
      [] value.tag = "Default" -> CompressionDefault
      [] value.tag = "Maximum" -> CompressionBest
      [] value.tag = "Custom"  ->
            IF value.n > 10 THEN InvalidLevel(value.n) ELSE CompressionNew(value.n)

\* impl TryFrom<&CompressionLevel> for Compression
TryFromLevel(value) ==
    CASE value.tag = "None"    -> CompressionNone
      [] value.tag = "Fast"    -> CompressionFast
      [] value.tag = "Default" -> CompressionDefault
      [] value.tag = "Maximum" -> CompressionBest
      [] value.tag = "Custom"  ->
            IF value.n > 9 THEN InvalidLevel(value.n) ELSE CompressionNew(value.n)

\* impl TryFrom<CompressionLevel> for Compression
TryFromLevelOwned(value) ==
    CASE value.tag = "None"    -> CompressionNone
      [] value.tag = "Fast"    -> CompressionFast
      [] value.tag = "Default" -> CompressionDefault
      [] value.tag = "Maximum" -> CompressionBest
      [] value.tag = "Custom"  ->
            IF value.n > 9 THEN InvalidLevel(value.n) ELSE CompressionNew(value.n)

---------------------------------------------------------------------------
(* File contents and their byte lengths                                    *)

\* A content is a plain byte string or a tar stream, possibly wrapped in a
\* gzip member deflated at `level`.
Raw(b) == [fmt |-> "raw", bytes |-> b, entries |-> <<>>, finished |-> FALSE,
           gz |-> FALSE, level |-> 0]
Tar(e, fin) == [fmt |-> "tar", bytes |-> <<>>, entries |-> e, finished |-> fin,
                gz |-> FALSE, level |-> 0]
\* GzEncoder::new(output, level) fed with `plain`, then finish()
Gz(lvl, plain) == [plain EXCEPT !.gz = TRUE, !.level = lvl]
\* what GzDecoder reads out of a gzip member
Payload(c) == [c EXCEPT !.gz = FALSE, !.level = 0]

Entry(name, kind, data) == [name |-> name, kind |-> kind, data |-> data]

\* tar works in 512-byte records
BLOCK == 512
Pad(n) == ((n + BLOCK - 1) \div BLOCK) * BLOCK

\* Byte length of a content.  A tar stream: one header record per entry, the
\* entry's data padded to whole records, and two zero records once finished.
\* A gzip member: 10-byte header, 8-byte trailer and the DEFLATE body (stored
\* at level 0, shorter the higher the level: an abstraction of the codec).
RECURSIVE Size(_)
RECURSIVE EntriesLen(_)
EntriesLen(e) == IF e = <<>> THEN 0
                 ELSE BLOCK + Pad(Size(Head(e).data)) + EntriesLen(Tail(e))
PlainLen(c) == IF c.fmt = "tar"
               THEN EntriesLen(c.entries) + (IF c.finished THEN 2 * BLOCK ELSE 0)
               ELSE Len(c.bytes)
Size(c) == IF c.gz
           THEN 18 + (IF c.level = 0 THEN PlainLen(c) + 5
                      ELSE PlainLen(c) \div (c.level + 1) + 5)
           ELSE PlainLen(c)

---------------------------------------------------------------------------
(* The filesystem                                                          *)

Dir == [kind |-> "dir", data |-> Raw(<<>>), target |-> <<>>]
RegFile(c) == [kind |-> "file", data |-> c, target |-> <<>>]
Fifo == [kind |-> "fifo", data |-> Raw(<<>>), target |-> <<>>]
Symlink(t) == [kind |-> "symlink", data |-> Raw(<<>>), target |-> t]

IsPrefix(p, q) == Len(p) <= Len(q) /\ SubSeq(q, 1, Len(p)) = p
Rel(root, p) == SubSeq(p, Len(root) + 1, Len(p))

\* lexical normalisation of "." and ".." components
RECURSIVE Norm(_)
Norm(p) ==
    IF p = <<>> THEN <<>>
    ELSE LET init == Norm(SubSeq(p, 1, Len(p) - 1))
             last == p[Len(p)]
         IN  IF last = "." THEN init
             ELSE IF last = ".." THEN
                  (IF init = <<>> THEN <<>> ELSE SubSeq(init, 1, Len(init) - 1))
             ELSE Append(init, last)

\* the node a path names, symbolic links followed (stat)
Resolve(f, p) ==
    LET q == Norm(p)
    IN  IF q \in DOMAIN f /\ f[q].kind = "symlink" THEN f[q].target ELSE q

Exists(f, p) == Resolve(f, p) \in DOMAIN f
\* std::fs::metadata(path): follows symbolic links, so never reports one
MetadataKind(f, p) == IF Exists(f, p) THEN f[Resolve(f, p)].kind ELSE "none"
\* the kind of the path itself (lstat)
LinkKind(f, p) == IF Norm(p) \in DOMAIN f THEN f[Norm(p)].kind ELSE "none"

\* Path::components: a "." that is not the first component is dropped
Components(p) == SelectSeq(p, LAMBDA x : x # ".") 
\* Path::file_name: the last component when it is a normal one, else None
HasFileName(p) ==
    LET q == IF p # <<>> /\ p[1] = "." THEN <<".">> \o Components(p) ELSE Components(p)
    IN  q # <<>> /\ q[Len(q)] \notin {".", ".."}
FileName(p) == LET q == Components(p) IN q[Len(q)]

Descendants(f, root) == {p \in DOMAIN f : IsPrefix(root, p) /\ p # root}

\* the tree below root as a set of (relative path, kind, content)
SubTree(f, root) ==
    {<<Rel(root, p), f[p].kind, f[p].data>> : p \in Descendants(f, root)}

RECURSIVE PathSeq(_)
PathSeq(S) == IF S = {} THEN <<>>
              ELSE LET p == CHOOSE x \in S : \A y \in S : Len(x) <= Len(y)
                   IN  <<p>> \o PathSeq(S \ {p})

WriteFile(f, p, c) == (Resolve(f, p) :> RegFile(c)) @@ f


---------------------------------------------------------------------------
(* tar::Builder and tar::Archive                                           *)

AppendDirAllFilesOnly(f, name, src) ==
    LET root == Resolve(f, src)
        ps   == PathSeq({p \in Descendants(f, root) : f[p].kind = "file"})
    IN  [i \in 1..Len(ps) |->
            Entry(<<name>> \o Rel(root, ps[i]), f[ps[i]].kind, f[ps[i]].data)]

\* Builder::append_dir_all(name, src): an entry for the directory itself and
\* one for everything below it, each named by `name` joined with its path
\* relative to src
AppendDirAll(f, name, src) ==
    LET root == Resolve(f, src)
        ps   == PathSeq(Descendants(f, root))
    IN  <<Entry(<<name>>, "dir", Raw(<<>>))>> \o
        [i \in 1..Len(ps) |->
            Entry(<<name>> \o Rel(root, ps[i]), f[ps[i]].kind, f[ps[i]].data)]

\* Builder::append_file(path, file): one entry, named by the path as given
AppendFile(f, path) ==
    <<Entry(path, "file", f[Resolve(f, path)].data)>>

Range(s) == {s[i] : i \in 1..Len(s)}
Prefixes(p) == {SubSeq(p, 1, n) : n \in 0..Len(p)}

\* where Archive::unpack(dst) puts the entries
Targets(base, entries) == {base \o e.name : e \in Range(entries)}

\* Archive::unpack fails when dst, or the place of an entry, is taken by
\* something of another kind
UnpackFails(f, dst, entries) ==
    LET base == Resolve(f, dst)
    IN  \/ base \in DOMAIN f /\ f[base].kind # "dir"
        \/ \E e \in Range(entries) :
              /\ base \o e.name \in DOMAIN f
              /\ f[base \o e.name].kind # e.kind

\* Archive::unpack(dst): dst and missing parents are created as directories,
\* every entry is written below dst under its recorded name
Unpack(f, dst, entries) ==
    LET base == Resolve(f, dst)
        T    == Targets(base, entries)
        A    == {q \in UNION {Prefixes(t) : t \in T \cup {base}} : Len(q) >= Len(base)}
        node(p) == LET i == CHOOSE i \in 1..Len(entries) :
                                /\ base \o entries[i].name = p
                                /\ \A j \in (i + 1)..Len(entries) :
                                        base \o entries[j].name # p
                   IN  IF entries[i].kind = "dir" THEN Dir
                       ELSE RegFile(entries[i].data)
    IN  [p \in DOMAIN f \cup A |->
            IF p \in T THEN node(p)
            ELSE IF p \in DOMAIN f THEN f[p]
            ELSE Dir]

---------------------------------------------------------------------------
(* Temporary files                                                         *)

AnyNames(st) == TmpNames

\* NamedTempFile::new() / tempfile(): a fresh name, never one in use
FreshNames(st) == TmpNames \ DOMAIN st

LeaveTmp(st, n) == st

\* dropping (or closing) the temporary file removes it
RemoveTmp(st, n) == [m \in DOMAIN st \ {n} |-> st[m]]

---------------------------------------------------------------------------
(* State                                                                   *)

\* ArchiveInfo; the f64 ratio is kept as the pair <<dividend, divisor>>
ArchiveInfo(i, o, r) == [input_size |-> i, output_size |-> o, ratio |-> r]
NoInfo == ArchiveInfo(0, 0, <<0, 0>>)

Ok(info) == [ok |-> TRUE, err |-> "", value |-> 0, info |-> info]
Err(kind, v) == [ok |-> FALSE, err |-> kind, value |-> v, info |-> NoInfo]

Idle == [pc |-> "idle", op |-> "none", input |-> <<>>, output |-> <<>>,
         level |-> Lv("None", 0), tmpfile |-> 0, input_size |-> 0,
         output_size |-> 0, result |-> Err("", 0)]

InitFS(a, withB) ==
    LET base == (<<>> :> Dir) @@ (<<"d">> :> Dir) @@ (<<"d", "a">> :> RegFile(Raw(a)))
                @@ (<<"d", "s">> :> Dir) @@ (<<"f">> :> RegFile(Raw(<<7>>)))
                @@ (<<"p">> :> Fifo) @@ (<<"l">> :> Symlink(<<"d">>))
    IN  IF withB THEN (<<"d", "s", "b">> :> RegFile(Raw(<<>>))) @@ base ELSE base

CompressInputs == {<<"d">>, <<"f">>, <<"d", "a">>, <<"p">>, <<"nx">>, <<"l">>,
                   <<"d", "..">>}
CompressOutputs == {<<"o1">>, <<"o2">>, <<"f">>, <<"d">>}
ExtractInputs == {<<"o1">>, <<"o2">>, <<"f">>}
ExtractOutputs == {<<"x">>, <<"f">>}

NoConv == [value |-> Lv("None", 0), u32 |-> -1, owned |-> InvalidLevel(0),
           ref |-> InvalidLevel(0), done |-> {}]

Init ==
    /\ \E a \in {<<>>, <<1, 2>>}, withB \in BOOLEAN : fs0 = InitFS(a, withB)
    /\ fs = fs0
    /\ staging = <<>>
    /\ call = [c \in CallIds |-> Idle]
    /\ conv = NoConv


---------------------------------------------------------------------------
(* Callers                                                                 *)

\* Compressor::new(input, output) followed by compress(level)
StartCompress(c, levels) ==
    /\ call[c].pc = "idle"
    /\ \E i \in CompressInputs, o \in CompressOutputs, l \in levels :
          call' = [call EXCEPT ![c] = [Idle EXCEPT !.pc = "tmpfile", !.op = "compress",
                                       !.input = i, !.output = o, !.level = l]]
    /\ UNCHANGED <<fs0, fs, staging, conv>>

\* Extractor::new(input, output) followed by extract()
StartExtract(c) ==
    /\ call[c].pc = "idle"
    /\ \E i \in ExtractInputs, o \in ExtractOutputs :
          call' = [call EXCEPT ![c] = [Idle EXCEPT !.pc = "open", !.op = "extract",
                                       !.input = i, !.output = o]]
    /\ UNCHANGED <<fs0, fs, staging, conv>>

\* an early return through `?`: the temporary file is dropped on the way out
KeepTmp(st, n) == st
DropTmp(st, n) == RemoveTmp(st, n)

Fail(c, e) ==
    /\ staging' = DropTmp(staging, call[c].tmpfile)
    /\ call' = [call EXCEPT ![c].pc = "done", ![c].result = e]

---------------------------------------------------------------------------
(* Compressor::compress_with_tar and compress_internal                     *)

\* NamedTempFile::new()? and tar::Builder::new(tmpfile.reopen()?)
CompressNewTmp(c) ==
    /\ call[c].pc = "tmpfile"
    /\ \E n \in FreshNames(staging) :
          /\ staging' = (n :> Tar(<<>>, FALSE)) @@ staging
          /\ call' = [call EXCEPT ![c].pc = "append", ![c].tmpfile = n]
    /\ UNCHANGED <<fs0, fs, conv>>

\* the branch compress_with_tar takes: metadata(input)? follows links, so the
\* is_symlink() test never holds
InputClassNoElse(f, input) ==
    LET kind == MetadataKind(f, input)
    IN  IF kind = "none" THEN "NotFound"
        ELSE IF kind = "dir" /\ ~HasFileName(input)
             THEN "Could not get file name from input"
        ELSE IF kind = "dir" THEN "dir"
        ELSE "file"

InputClass(f, input) ==
    LET kind == MetadataKind(f, input)
    IN  IF kind = "none" THEN "NotFound"
        ELSE IF kind = "dir" /\ ~HasFileName(input)
             THEN "Could not get file name from input"
        ELSE IF kind = "dir" THEN "dir"
        ELSE IF kind = "file" \/ kind = "symlink" THEN "file"
        ELSE "Input is neither a file, symlink or a directory"

\* the entries the input kind selects; tar.finish() ends the stream
TarOfInput(f, input) ==
    IF InputClass(f, input) = "dir"
    THEN Tar(AppendDirAll(f, FileName(input), input), TRUE)
    ELSE Tar(AppendFile(f, input), TRUE)

\* classification of the input, the append, tar.finish() and the rewind
CompressAppend(c) ==
    LET me == call[c]
        class == InputClass(fs, me.input)
    IN  /\ me.pc = "append"
        /\ IF class \in {"dir", "file"}
           THEN /\ staging' = [staging EXCEPT ![me.tmpfile] = TarOfInput(fs, me.input)]
                /\ call' = [call EXCEPT ![c].pc = "create"]
           ELSE Fail(c, Err(class, 0))
        /\ UNCHANGED <<fs0, fs, conv>>

\* compress_internal: the staging file's length, then File::create(output)
CompressCreate(c) ==
    LET me == call[c]
    IN  /\ me.pc = "create"
        /\ IF MetadataKind(fs, me.output) = "dir"
           THEN /\ Fail(c, Err("IsADirectory", 0))
                /\ fs' = fs
           ELSE /\ fs' = WriteFile(fs, me.output, Raw(<<>>))
                /\ call' = [call EXCEPT ![c].pc = "encode",
                                        ![c].input_size = Size(staging[me.tmpfile])]
                /\ staging' = staging
        /\ UNCHANGED <<fs0, conv>>

\* GzEncoder::new(output_file, level.try_into()?), copy and finish
CompressEncode(c) ==
    LET me == call[c]
        codec == TryFromLevel(me.level)
    IN  /\ me.pc = "encode"
        /\ IF ~codec.ok
           THEN /\ Fail(c, Err("Invalid compression level", codec.msg))
                /\ fs' = fs
           ELSE /\ fs' = WriteFile(fs, me.output, Gz(codec.level, staging[me.tmpfile]))
                /\ call' = [call EXCEPT ![c].pc = "finish"]
                /\ staging' = staging
        /\ UNCHANGED <<fs0, conv>>

CompressInfoInverted(input_size, output_size) ==
    ArchiveInfo(input_size, output_size, <<output_size, input_size>>)

\* the ArchiveInfo of a compression
CompressInfo(input_size, output_size) ==
    ArchiveInfo(input_size, output_size, <<input_size, output_size>>)

\* the output's length, the ArchiveInfo, tmpfile.close()? and the return
CompressFinish(c) ==
    LET me == call[c]
        output_size == Size(fs[Resolve(fs, me.output)].data)
    IN  /\ me.pc = "finish"
        /\ staging' = RemoveTmp(staging, me.tmpfile)
        /\ call' = [call EXCEPT ![c].pc = "done", ![c].output_size = output_size,
                       ![c].result = Ok(CompressInfo(me.input_size, output_size))]
        /\ UNCHANGED <<fs0, fs, conv>>

Absent == [kind |-> "none", data |-> Raw(<<>>), target |-> <<>>]
NodeAt(f, p) == IF Exists(f, p) THEN f[Resolve(f, p)] ELSE Absent

\* compress(level) run from start to end on filesystem f with no other call
\* in between: its result and the node it leaves at output
CompressAlone(f, input, output, level) ==
    LET class == InputClass(f, input)
        tar   == TarOfInput(f, input)
        codec == TryFromLevel(level)
    IN  IF class \notin {"dir", "file"}
        THEN [result |-> Err(class, 0), out |-> NodeAt(f, output)]
        ELSE IF MetadataKind(f, output) = "dir"
        THEN [result |-> Err("IsADirectory", 0), out |-> NodeAt(f, output)]
        ELSE IF ~codec.ok
        THEN [result |-> Err("Invalid compression level", codec.msg),
              out |-> RegFile(Raw(<<>>))]
        ELSE [result |-> Ok(CompressInfo(Size(tar), Size(Gz(codec.level, tar)))),
              out |-> RegFile(Gz(codec.level, tar))]

---------------------------------------------------------------------------
(* Extractor::extract_internal                                             *)

\* File::open(input)?, its length, tempfile()?
ExtractOpen(c) ==
    LET me == call[c]
    IN  /\ me.pc = "open"
        /\ IF ~Exists(fs, me.input)
           THEN /\ call' = [call EXCEPT ![c].pc = "done",
                                        ![c].result = Err("NotFound", 0)]
                /\ staging' = staging
           ELSE \E n \in FreshNames(staging) :
                   /\ staging' = (n :> Raw(<<>>)) @@ staging
                   /\ call' = [call EXCEPT ![c].pc = "decode", ![c].tmpfile = n,
                                  ![c].input_size = Size(fs[Resolve(fs, me.input)].data)]
        /\ UNCHANGED <<fs0, fs, conv>>

\* copy(GzDecoder(input), tmpfile)?, the rewind and the staging file's length
ExtractDecode(c) ==
    LET me == call[c]
        node == fs[Resolve(fs, me.input)]
    IN  /\ me.pc = "decode"
        /\ IF ~Exists(fs, me.input) \/ node.kind # "file" \/ ~node.data.gz
           THEN Fail(c, Err("invalid gzip header", 0))
           ELSE /\ staging' = [staging EXCEPT ![me.tmpfile] = Payload(node.data)]
                /\ call' = [call EXCEPT ![c].pc = "unpack",
                                        ![c].output_size = Size(Payload(node.data))]
        /\ UNCHANGED <<fs0, fs, conv>>

ExtractInfoInverted(input_size, output_size) ==
    ArchiveInfo(input_size, output_size, <<input_size, output_size>>)

\* the ArchiveInfo of an extraction
ExtractInfo(input_size, output_size) ==
    ArchiveInfo(input_size, output_size, <<output_size, input_size>>)

\* Archive::new(tmpfile).unpack(output)?, the ArchiveInfo and the return
ExtractUnpack(c) ==
    LET me == call[c]
        tar == staging[me.tmpfile]
    IN  /\ me.pc = "unpack"
        /\ IF tar.fmt # "tar" \/ UnpackFails(fs, me.output, tar.entries)
           THEN /\ Fail(c, Err("unpack", 0))
                /\ fs' = fs
           ELSE /\ fs' = Unpack(fs, me.output, tar.entries)
                /\ staging' = RemoveTmp(staging, me.tmpfile)
                /\ call' = [call EXCEPT ![c].pc = "done",
                               ![c].result = Ok(ExtractInfo(me.input_size, me.output_size))]
        /\ UNCHANGED <<fs0, conv>>

Step(c) ==
    \/ CompressNewTmp(c)
    \/ CompressAppend(c)
    \/ CompressCreate(c)
    \/ CompressEncode(c)
    \/ CompressFinish(c)
    \/ ExtractOpen(c)
    \/ ExtractDecode(c)
    \/ ExtractUnpack(c)

---------------------------------------------------------------------------
(* Specifications                                                          *)

\* one call of either kind with any level, then an extraction
StartFirst == StartCompress("A", CompressionLevel) \/ StartExtract("A")
StartSecond == call["A"].pc = "done" /\ StartExtract("B")

Next ==
    \/ StartFirst
    \/ StartSecond
    \/ \E c \in CallIds : Step(c)

Spec == Init /\ [][Next]_vars

\* two callers at once, each making one call
ConcLevels == {Lv("Default", 0), Lv("Custom", 0), Lv("Custom", MaxCustom)}

InitConc ==
    /\ fs0 = InitFS(<<1, 2>>, TRUE)
    /\ fs = fs0
    /\ staging = <<>>
    /\ call = [c \in CallIds |-> Idle]
    /\ conv = NoConv

NextConc ==
    \/ \E c \in CallIds : StartCompress(c, ConcLevels)
    \/ \E c \in CallIds : StartExtract(c)
    \/ \E c \in CallIds : Step(c)

SpecConc == InitConc /\ [][NextConc]_vars

\* the conversions of one CompressionLevel value, applied in any order
LevelInputs == NamedLevels \cup {Lv("Custom", n) : n \in 0..MaxLevel}

InitLevel ==
    /\ fs0 = InitFS(<<>>, FALSE)
    /\ fs = fs0
    /\ staging = <<>>
    /\ call = [c \in CallIds |-> Idle]
    /\ \E v \in LevelInputs : conv = [NoConv EXCEPT !.value = v]

ConvertU32 ==
    /\ "u32" \notin conv.done
    /\ conv' = [conv EXCEPT !.u32 = LevelToU32(conv.value), !.done = @ \cup {"u32"}]
    /\ UNCHANGED <<fs0, fs, staging, call>>

ConvertOwned ==
    /\ "owned" \notin conv.done
    /\ conv' = [conv EXCEPT !.owned = TryFromLevelOwned(conv.value),
                            !.done = @ \cup {"owned"}]
    /\ UNCHANGED <<fs0, fs, staging, call>>

ConvertRef ==
    /\ "ref" \notin conv.done
    /\ conv' = [conv EXCEPT !.ref = TryFromLevel(conv.value), !.done = @ \cup {"ref"}]
    /\ UNCHANGED <<fs0, fs, staging, call>>

NextLevel == ConvertU32 \/ ConvertOwned \/ ConvertRef

SpecLevel == InitLevel /\ [][NextLevel]_vars

---------------------------------------------------------------------------
(* Properties                                                              *)

Done(c, o) == call[c].pc = "done" /\ call[c].op = o
DoneOk(c, o) == Done(c, o) /\ call[c].result.ok

\* the file at the call's output path is as it was before any call
OutputUntouched(c) ==
    LET o == Resolve(fs0, call[c].output)
    IN  /\ (o \in DOMAIN fs) = (o \in DOMAIN fs0)
        /\ o \in DOMAIN fs0 => fs[o] = fs0[o]

OutputNotCreated(c) ==
    LET o == Resolve(fs0, call[c].output)
    IN  o \notin DOMAIN fs0 => o \notin DOMAIN fs

\* C1: compress with Custom(n), n >= 10, on a supported input fails and leaves
\* the file at output_path neither created nor modified.
C1_InvalidLevelLeavesOutput ==
    \A c \in CallIds :
        ( /\ Done(c, "compress")
          /\ call[c].level.tag = "Custom" /\ call[c].level.n >= 10
          /\ LinkKind(fs0, call[c].input) \in {"file", "dir"}
          /\ HasFileName(call[c].input) )
        => ~call[c].result.ok /\ OutputUntouched(c)

\* what of the archive at the call's output is a tar stream
Archived(c) == Payload(fs[Resolve(fs, call[c].output)].data)

\* the tree Archive::unpack leaves below dst for the root entry `name`
Extracted(dst, name) == SubTree(fs, Append(Resolve(fs, dst), name))

Writable(p) == MetadataKind(fs0, p) \in {"none", "file"}
Unpackable(p) == MetadataKind(fs0, p) \in {"none", "dir"}

RoundTrip(named) ==
    /\ \A c \in CallIds :
          ( /\ Done(c, "compress")
            /\ LinkKind(fs0, call[c].input) = "dir"
            /\ named => HasFileName(call[c].input)
            /\ LevelToU32(call[c].level) <= 9
            /\ Writable(call[c].output) )
          => call[c].result.ok
    /\ \A c1, c2 \in CallIds :
          ( /\ DoneOk(c1, "compress")
            /\ LinkKind(fs0, call[c1].input) = "dir"
            /\ Done(c2, "extract")
            /\ call[c2].input = call[c1].output
            /\ Unpackable(call[c2].output) )
          => /\ call[c2].result.ok
             /\ Extracted(call[c2].output, FileName(call[c1].input))
                    = SubTree(fs0, Resolve(fs0, call[c1].input))
             /\ fs[Append(Resolve(fs, call[c2].output), FileName(call[c1].input))] = Dir

\* C2 (as claimed): for every directory tree T and level 0..9, compressing T
\* to A and extracting A into B both succeed, and B holds, under the root
\* entry named by T's last path segment, exactly T's entries and contents.
C2_RoundTripEveryTree == RoundTrip(FALSE)

\* C2 (amended): the same for every directory whose input path ends in a
\* normal name component (Path::file_name is Some).
C2_RoundTripNamedTree == RoundTrip(TRUE)

C2_Witness ==
    /\ DoneOk("A", "compress") /\ call["A"].input = <<"d">>
    /\ call["A"].level = Lv("Custom", 9)
    /\ DoneOk("B", "extract") /\ call["B"].input = call["A"].output
    /\ <<"d", "s", "b">> \notin DOMAIN fs0
    /\ <<"x", "d", "s">> \in DOMAIN fs

\* C3: no staging file outlives the call that created it: every staging file
\* that exists belongs to a call that has not returned yet.
C3_StagingRemovedOnReturn ==
    \A n \in DOMAIN staging :
        \E c \in CallIds : call[c].pc \notin {"idle", "done"} /\ call[c].tmpfile = n

C3_Witness ==
    /\ Done("A", "compress") /\ ~call["A"].result.ok /\ call["A"].tmpfile # 0
    /\ call["A"].result.err = "Invalid compression level"
    /\ Done("B", "extract") /\ ~call["B"].result.ok /\ call["B"].tmpfile # 0

Unsupported == "Input is neither a file, symlink or a directory"

\* C4 (as claimed): compressing a path that is neither file, symlink nor
\* directory, or does not exist, fails with the unsupported-input error,
\* returns no ArchiveInfo and creates no file at output_path.
C4_UnsupportedOrMissing ==
    \A c \in CallIds :
        (Done(c, "compress") /\ LinkKind(fs0, call[c].input) \in {"fifo", "none"})
        => /\ ~call[c].result.ok
           /\ call[c].result.err = Unsupported
           /\ call[c].result.info = NoInfo
           /\ OutputNotCreated(c)

\* C4 (amended): a device, socket or FIFO fails with the unsupported-input
\* error and a path that does not exist with the NotFound error of the
\* metadata lookup; in both cases no ArchiveInfo is returned and no file is
\* created at output_path.
C4_UnsupportedVsMissing ==
    \A c \in CallIds :
        (Done(c, "compress") /\ LinkKind(fs0, call[c].input) \in {"fifo", "none"})
        => /\ ~call[c].result.ok
           /\ LinkKind(fs0, call[c].input) = "fifo" => call[c].result.err = Unsupported
           /\ LinkKind(fs0, call[c].input) = "none" => call[c].result.err = "NotFound"
           /\ call[c].result.info = NoInfo
           /\ OutputNotCreated(c)

C4_Witness ==
    /\ Done("A", "compress") /\ call["A"].input = <<"p">>
    /\ call["A"].output = <<"o1">> /\ call["A"].result.err = Unsupported

Converted(r, n) ==
    /\ r.ok = ~(n > 9)
    /\ ~r.ok => r.msg = n
    /\ r.ok => r.level = n

\* C5: the integer conversion is None=0, Fast=1, Default=6, Maximum=9,
\* Custom(n)=n; the codec conversion fails exactly when that integer
\* exceeds 9, the error carrying the integer, and otherwise yields a codec
\* level equal to it.
C5_LevelConversion ==
    /\ "u32" \in conv.done =>
          conv.u32 = ( CASE conv.value.tag = "None" -> 0
                         [] conv.value.tag = "Fast" -> 1
                         [] conv.value.tag = "Default" -> 6
                         [] conv.value.tag = "Maximum" -> 9
                         [] OTHER -> conv.value.n )
    /\ {"u32", "ref"} \subseteq conv.done => Converted(conv.ref, conv.u32)
    /\ {"u32", "owned"} \subseteq conv.done => Converted(conv.owned, conv.u32)

C5_Witness ==
    /\ conv.done = {"u32", "owned", "ref"}
    /\ conv.value = Lv("Custom", 10)
    /\ ~conv.ref.ok /\ conv.ref.msg = 10

\* C6: a successful compress returns input_size = the length of the finished
\* staging tar, output_size = the length of the file at output_path after the
\* encoder finished, ratio = input_size / output_size.
C6_CompressInfo ==
    \A c \in CallIds :
        DoneOk(c, "compress") =>
            LET info == call[c].result.info
                out  == fs[Resolve(fs, call[c].output)].data
            IN  /\ Archived(c).finished
                /\ info.input_size = Size(Archived(c))
                /\ info.input_size = Size(TarOfInput(fs0, call[c].input))
                /\ info.output_size = Size(out)
                /\ info.ratio = <<info.input_size, info.output_size>>

C6_Witness ==
    /\ DoneOk("A", "compress") /\ call["A"].input = <<"d">>
    /\ call["A"].result.info.input_size > call["A"].result.info.output_size

\* C7: a successful extract returns input_size = the length of the compressed
\* input file, output_size = the length of the decompressed tar stream (not
\* of the unpacked tree), ratio = output_size / input_size.
C7_ExtractInfo ==
    \A c \in CallIds :
        DoneOk(c, "extract") =>
            LET info == call[c].result.info
                in   == fs[Resolve(fs, call[c].input)].data
            IN  /\ info.input_size = Size(in)
                /\ info.output_size = Size(Payload(in))
                /\ info.ratio = <<info.output_size, info.input_size>>

C7_Witness ==
    /\ DoneOk("B", "extract")
    /\ call["B"].result.info.output_size > call["B"].result.info.input_size

Overlap(p, q) == IsPrefix(p, q) \/ IsPrefix(q, p)
CallPaths(c) == {Resolve(fs0, call[c].input), Resolve(fs0, call[c].output)}

\* the input and output paths of the two calls are distinct and disjoint
NonOverlapping(c1, c2) ==
    /\ ~Overlap(Resolve(fs0, call[c1].input), Resolve(fs0, call[c1].output))
    /\ ~Overlap(Resolve(fs0, call[c2].input), Resolve(fs0, call[c2].output))
    /\ \A p \in CallPaths(c1), q \in CallPaths(c2) : ~Overlap(p, q)

HoldsStaging(c) == call[c].pc \in {"append", "create", "encode", "finish"}

Alone(c) == CompressAlone(fs0, call[c].input, call[c].output, call[c].level)

\* C8: two concurrent compress calls on distinct, non-overlapping paths never
\* share a staging file, succeed whenever their input, level and output are
\* valid, and each returns the ArchiveInfo and leaves the output file it
\* would when run alone.
C8_ConcurrentCompress ==
    \A c1, c2 \in CallIds :
        ( /\ c1 # c2
          /\ call[c1].op = "compress" /\ call[c2].op = "compress"
          /\ NonOverlapping(c1, c2) )
        => /\ (HoldsStaging(c1) /\ HoldsStaging(c2))
                  => call[c1].tmpfile # call[c2].tmpfile
           /\ call[c1].pc = "done" =>
                 /\ call[c1].result = Alone(c1).result
                 /\ NodeAt(fs, call[c1].output) = Alone(c1).out
                 /\ ( /\ InputClass(fs0, call[c1].input) \in {"dir", "file"}
                      /\ LevelToU32(call[c1].level) <= 9
                      /\ Writable(call[c1].output) ) => call[c1].result.ok

C8_Witness ==
    /\ DoneOk("A", "compress") /\ DoneOk("B", "compress")
    /\ NonOverlapping("A", "B")
    /\ call["A"].input = <<"d">> /\ call["B"].input = <<"f">>

\* a step of a compress call
Moves(c) == call[c].op = "compress" /\ call'[c] # call[c]

SameAt(f, g, p) == (p \in DOMAIN f) = (p \in DOMAIN g) /\ (p \in DOMAIN f => f[p] = g[p])

InputKept(c) ==
    \A p \in DOMAIN fs \cup DOMAIN fs' :
        IsPrefix(Resolve(fs, call[c].input), p) => SameAt(fs, fs', p)

OnlyOutputWritten(c) ==
    \A p \in DOMAIN fs \cup DOMAIN fs' :
        p # Resolve(fs, call[c].output) => SameAt(fs, fs', p)

OneStagingFile(c) ==
    /\ \A n \in DOMAIN staging \cup DOMAIN staging' :
          n \notin {call[c].tmpfile, call'[c].tmpfile} => SameAt(staging, staging', n)
    /\ call[c].tmpfile # 0 => call'[c].tmpfile = call[c].tmpfile
    /\ call'[c].pc = "done" => call'[c].tmpfile \notin DOMAIN staging'

\* C9 (as claimed): for every pair (input_path, output_path) a compress call
\* leaves input_path unchanged; it only writes output_path and creates and
\* removes one staging file.
C9_InputNeverModified ==
    [][\A c \in CallIds :
          Moves(c) => InputKept(c) /\ OnlyOutputWritten(c) /\ OneStagingFile(c)]_vars

\* C9 (amended): the same, input_path being left unchanged for every pair
\* whose output_path is neither input_path itself nor a path below it.
C9_InputKeptUnlessOutput ==
    [][\A c \in CallIds :
          Moves(c) =>
             /\ ~IsPrefix(Resolve(fs, call[c].input), Resolve(fs, call[c].output))
                    => InputKept(c)
             /\ OnlyOutputWritten(c)
             /\ OneStagingFile(c)]_vars

C9_Witness ==
    /\ DoneOk("A", "compress")
    /\ call["A"].input = <<"d", "a">> /\ call["A"].output = <<"o2">>
    /\ fs[<<"d", "a">>] = fs0[<<"d", "a">>] /\ <<"o2">> \in DOMAIN fs
    /\ call["A"].tmpfile # 0 /\ staging = <<>>

\* C10: a directory input is archived as its whole subtree under a root entry
\* named by the last path segment; a regular file or a symbolic link,
\* whatever it points to, as exactly one entry named by the input path string.
C10_InputClassification ==
    \A c \in CallIds :
        DoneOk(c, "compress") =>
            LET e    == Archived(c).entries
                kind == LinkKind(fs0, call[c].input)
                root == <<FileName(call[c].input)>>
            IN  /\ kind = "dir" =>
                      /\ e[1] = Entry(root, "dir", Raw(<<>>))
                      /\ {<<Rel(root, e[i].name), e[i].kind, e[i].data>> : i \in 2..Len(e)}
                             = SubTree(fs0, Resolve(fs0, call[c].input))
                /\ kind \in {"file", "symlink"} =>
                      /\ Len(e) = 1
                      /\ e[1].name = call[c].input


===========================================================================
